---- MODULE Spec2Model ----
(***************************************************************************)
(* Own Words Wiz: the GameService of src/services/mockBackend.ts as a      *)
(* state machine.  One host instance (the teacher's service) owns the      *)
(* document; follower instances (students' services) hold replicas that    *)
(* are replaced by the SYNC_STATE snapshots the host sends over PeerJS     *)
(* data connections.                                                       *)
(*                                                                         *)
(* Conventions of the model:                                               *)
(*  - a JavaScript property that is absent and one that holds undefined    *)
(*    read the same, so both are the value Undefined (strings) or          *)
(*    UndefinedNum (numbers); null is Null;                                *)
(*  - Date.now() is the variable clock, Math.random() a choice from a      *)
(*    finite set;                                                          *)
(*  - a PeerJS data connection is an ordered, lossless queue per           *)
(*    direction while it is open; closing it discards what is in flight;   *)
(*  - the log, which no handler reads, is written by steps of its own;     *)
(*  - the socket.io relay of src/server.js is a second program, modelled   *)
(*    by the variable relay and sharing nothing with the service.          *)
(***************************************************************************)
EXTENDS Integers, Sequences, FiniteSets, TLC

\* ------------------------------------------------------------------------
\* Bounds of the model
\* ------------------------------------------------------------------------

\* Data connections ever attempted (connection ids are 1..MaxConns).
MaxConns == 3
\* Data connections attempted where followers handle their events too.
MaxNetConns == 2
\* Messages in flight per direction of one connection.
MaxQueue == 2
\* Entries the students mapping may hold before submissions stop.
MaxStudents == 2
\* Largest value of the millisecond clock.
MaxClock == 1
\* RESET_FORM receipts counted per follower.
MaxResetCount == 2
\* Callbacks one follower registers with subscribeReset.
MaxListeners == 1
\* Calls of persist() the host makes, and the fewer it makes in the
\* specifications that also run the followers and the connections.
MaxPersists == 4
MaxNetPersists == 3
\* Events logged by one service instance.
MaxEvents == 202
\* Subscriptions held at one time in this.listeners.
MaxObservers == 2
\* Messages waiting at one client of the relay.
MaxInbox == 2
\* Losses of the signalling link one peer goes through.
MaxReconnects == 2

\* ------------------------------------------------------------------------
\* Values
\* ------------------------------------------------------------------------

Undefined == "<undefined>"
UndefinedNum == 0 - 2
Null == 0 - 1

Followers == {"f1"}
ConnIds == 1..MaxConns
NoConn == 0

\* Student names, and the one each follower typed into the join form.
Names == {"Alex", "Bo"}
NameOf(f) == IF f = "f1" THEN "Alex" ELSE "Bo"
Texts == {"", "my answer"}
Prompts == {"Explain X"}
\* Arguments the setPrompt API is called with, and values the dashboard's
\* newMaxScore field holds when "set prompt" is clicked.
MaxScoreArgs == {0, 3}
DashboardMaxScores == {0 - 3, 3}
ScoreArgs == {2}
AiScoreArgs == {1}
AiFeedbackArgs == {"Good paraphrase."}
\* Results of Math.random().toString(36).substring(2, 6).toUpperCase().
RandomCodes == {"AB12", "CD34"}
\* What students type in the class-code field.
TypedCodes == {"ab12"}
\* Results of Math.random().toString(36).substr(2, 5).
RandomSuffixes == {"r1", "r2"}
\* Names every object inherits from Object.prototype; one stands for all.
ObjectPrototypeKeys == {"constructor"}
\* Ids the teacher-side mutators are called with besides the existing ones.
StrayIds == {"ghost", "constructor"}

\* Callbacks handed to subscribe; the same function may be handed in twice.
Callbacks == {"l1", "l2"}
\* Sockets connected to the relay, and what they send through it.
Sockets == {"s1", "s2", "s3"}
RelayMessages == {"m1", "m2"}
\* The roomCode of an envelope: a class code, or any other string, such as
\* the id of a socket.
RoomNames == RandomCodes \cup Sockets

APP_PREFIX == "oww-v1-"
\* addLog: if (this.logs.length > 200) this.logs = this.logs.slice(0, 200)
LogLimit == 200
\* err.type of the 'error' events of a PeerJS peer
HostErrorTypes ==
    {"unavailable-id", "network", "server-error", "socket-error", "webrtc"}
FollowerErrorTypes == {"network"}

Max(a, b) == IF a >= b THEN a ELSE b

\* String.prototype.toUpperCase on the typed codes.
ToUpperCase(s) == CASE s = "ab12" -> "AB12"
                    [] OTHER -> s

\* studentName.toLowerCase().replace(/[^a-z0-9]/g, '-')
Slug(name) == CASE name = "Alex" -> "alex"
                [] name = "Bo" -> "bo"
                [] OTHER -> name

\* ------------------------------------------------------------------------
\* The document (GameState) and its JSON form
\* ------------------------------------------------------------------------

EmptyMap == [k \in {} |-> k]

PromptView == [type |-> "prompt", contentId |-> Undefined]

initialState ==
    [roomCode |-> Undefined,
     prompt |-> "",
     maxScore |-> 2,
     isAcceptingAnswers |-> FALSE,
     students |-> EmptyMap,
     projectorDisplay |-> PromptView]

\* obj[key] is truthy: own properties first, then Object.prototype.
HasProperty(students, id) ==
    \/ id \in DOMAIN students
    \/ id \in ObjectPrototypeKeys

\* { ...students[id] }: the own enumerable properties of the entry; an
\* inherited Object.prototype member has none.
ResponseFields == {"id", "studentName", "text", "submittedAt", "score",
                   "aiSuggestedScore", "aiFeedback"}
NumericFields == {"submittedAt", "score", "aiSuggestedScore"}
NoFields == [k \in ResponseFields |->
                IF k \in NumericFields THEN UndefinedNum ELSE Undefined]
SpreadEntry(students, id) ==
    IF id \in DOMAIN students THEN students[id] ELSE NoFields

\* { ...students, [id]: response }
Put(students, id, response) ==
    [k \in DOMAIN students \cup {id} |->
        IF k = id THEN response ELSE students[k]]

\* JSON.stringify followed by JSON.parse: properties holding undefined are
\* left out of the text, so the parsed object has only the others.
IsUndefinedAt(obj, k) ==
    IF k \in NumericFields \cup {"maxScore"} THEN obj[k] = UndefinedNum
    ELSE IF k \in {"students", "projectorDisplay", "isAcceptingAnswers"} THEN FALSE
    ELSE obj[k] = Undefined
PresentKeys(obj) == {k \in DOMAIN obj : ~IsUndefinedAt(obj, k)}
StripUndefined(obj) == [k \in PresentKeys(obj) |-> obj[k]]
JsonStudents(students) ==
    [id \in DOMAIN students |-> StripUndefined(students[id])]
ToJson(doc) ==
    [k \in PresentKeys(doc) |->
        CASE k = "students" -> JsonStudents(doc.students)
          [] k = "projectorDisplay" -> StripUndefined(doc.projectorDisplay)
          [] OTHER -> doc[k]]

\* Reading the parsed object: a property it lacks reads as undefined.
ReadEntry(e) ==
    [k \in ResponseFields |->
        IF k \in DOMAIN e THEN e[k]
        ELSE IF k \in NumericFields THEN UndefinedNum ELSE Undefined]
FromJson(json) ==
    [roomCode |-> IF "roomCode" \in DOMAIN json THEN json["roomCode"] ELSE Undefined,
     prompt |-> json["prompt"],
     maxScore |-> json["maxScore"],
     isAcceptingAnswers |-> json["isAcceptingAnswers"],
     students |-> [id \in DOMAIN json["students"] |-> ReadEntry(json["students"][id])],
     projectorDisplay |->
        [type |-> json["projectorDisplay"]["type"],
         contentId |-> IF "contentId" \in DOMAIN json["projectorDisplay"]
                       THEN json["projectorDisplay"]["contentId"] ELSE Undefined]]

\* Network messages (NetworkMessage, plus the untyped RESET_FORM).
SyncState(doc) == [type |-> "SYNC_STATE", payload |-> ToJson(doc)]
ResetForm == [type |-> "RESET_FORM"]
SubmitAnswer(name, text) ==
    [type |-> "SUBMIT_ANSWER", payload |-> [name |-> name, text |-> text]]
JoinRequest(name) == [type |-> "JOIN_REQUEST", payload |-> [name |-> name]]

\* ------------------------------------------------------------------------
\* State
\* ------------------------------------------------------------------------

VARIABLES
    state,            \* host: this.state, the authoritative document
    isHost,           \* host: this.isHost
    peer,             \* host: this.peer, [exists, id, code, open, resolved, fault,
                      \*   disconnected, reconnects]
    connections,      \* host: this.connections, a sequence of connection ids
    connectionStatus, \* host: this.connectionStatus
    storage,          \* host device: localStorage[STORAGE_KEY], <<>> or <<json>>
    persists,         \* host: number of persist() calls made so far
    clock,            \* Date.now()
    snapTimers,       \* connections whose 100 ms initial-snapshot timer is pending
    resetTimers,      \* pending delayed RESET_FORM broadcasts of resetRound
    conn,             \* the data connections:
                      \*   [owner, target, link, fOpen, promise, timer]
    toFollower,       \* per connection: messages in flight host -> follower
    toHost,           \* per connection: messages in flight follower -> host
    fState,           \* follower: this.state, the replica
    fConn,            \* follower: this.connections[0] (NoConn when empty)
    resetListeners,   \* follower: number of callbacks in this.resetListeners
    resetCount,       \* follower: invocations of notifyReset so far (capped)
    joinError,        \* follower: what peer.on('error') rejected the latest
                      \*   joinGame call with, NoError if it did not
    fStatus,          \* follower: this.connectionStatus
    logs,             \* host: this.logs, newest first; an entry is the serial
                      \*   number of the logged event
    uncaught,         \* host: an exception has escaped a conn.on('data') callback
    observers,        \* host: [listeners, calls]: this.listeners, and for each
                      \*   callback what its latest invocation was given
    relay             \* relay server: [connected, rooms, inbox]

hostVars == <<state, isHost, peer, connections, connectionStatus, storage, persists>>
timerVars == <<clock, snapTimers, resetTimers>>
netVars == <<conn, toFollower, toHost>>
followerVars == <<fState, fConn, resetListeners, resetCount, joinError, fStatus>>
vars == <<hostVars, timerVars, netVars, followerVars, logs, uncaught, observers, relay>>

NoError == "<none>"
ClassNotFound == "Class not found. Check code."
ConnectionTimedOut == "Connection timed out."

\* peer: code is the room code startHosting computed for it, resolved the
\* value its promise resolved with, fault the type of the last 'error' event.
\* disconnected is peer.disconnected, reconnects the number of
\* peer.reconnect() calls made on it.
NoPeer == [exists |-> FALSE, id |-> Undefined, code |-> Undefined,
           open |-> FALSE, resolved |-> Undefined, fault |-> NoError,
           disconnected |-> FALSE, reconnects |-> 0]
NewPeer(code) == [exists |-> TRUE, id |-> APP_PREFIX \o code, code |-> code,
                  open |-> FALSE, resolved |-> Undefined, fault |-> NoError,
                  disconnected |-> FALSE, reconnects |-> 0]

\* conn: promise is the state of the joinGame promise of the attempt, timer
\* whether its 10 s timeout is pending.
UnusedConn == [owner |-> Undefined, target |-> Undefined, link |-> "unused",
               fOpen |-> FALSE, promise |-> "none", timer |-> FALSE]

\* observers: nothing subscribed, no callback invoked yet.  calls[l] holds
\* what the latest invocation of l was given, see Notification.
NoObservers ==
    [listeners |-> <<>>,
     calls |-> [l \in Callbacks |-> <<>>]]

\* relay: no socket connected.
EmptyRelay ==
    [connected |-> {},
     rooms |-> [s \in Sockets |-> {}],
     inbox |-> [s \in Sockets |-> <<>>]]

Init ==
    /\ state = initialState
    /\ isHost = FALSE
    /\ peer = NoPeer
    /\ connections = <<>>
    /\ connectionStatus = "disconnected"
    /\ storage = <<>>
    /\ persists = 0
    /\ clock = 0
    /\ snapTimers = {}
    /\ resetTimers = 0
    /\ conn = [c \in ConnIds |-> UnusedConn]
    /\ toFollower = [c \in ConnIds |-> <<>>]
    /\ toHost = [c \in ConnIds |-> <<>>]
    /\ fState = [f \in Followers |-> initialState]
    /\ fConn = [f \in Followers |-> NoConn]
    /\ resetListeners = [f \in Followers |-> 0]
    /\ resetCount = [f \in Followers |-> 0]
    /\ joinError = [f \in Followers |-> NoError]
    /\ fStatus = [f \in Followers |-> "disconnected"]
    /\ logs = <<1>>
    /\ uncaught = FALSE
    /\ observers = NoObservers
    /\ relay = EmptyRelay

\* ------------------------------------------------------------------------
\* persist, broadcast and the host-side mutators
\* ------------------------------------------------------------------------

Range(seq) == {seq[i] : i \in 1..Len(seq)}
Registered == Range(connections)

\* this.connections.forEach(conn => { if (conn.open) conn.send(msg) })
broadcast(queues, registry, msg) ==
    [c \in ConnIds |->
        IF c \in registry /\ conn[c].link = "open"
        THEN Append(queues[c], msg) ELSE queues[c]]

\* Every open registered connection can take k more messages.
HasRoom(k) ==
    \A c \in Registered :
        conn[c].link = "open" => Len(toFollower[c]) + k <= MaxQueue

\* Snapshots with the broadcast made before the new document is stored.
SnapshotsOfPreviousState(queues, registry, host, doc) ==
    IF host THEN broadcast(queues, registry, SyncState(state)) ELSE queues

\* The queues after persist(): a SYNC_STATE to every open connection when
\* this instance is the host.
Snapshots(queues, registry, host, doc) ==
    IF host THEN broadcast(queues, registry, SyncState(doc)) ELSE queues

\* What a callback invoked with doc finds: the document it is given, whether
\* the mirror holds that document at the time, whether every open connection
\* of the registry has been sent it (nothing is sent by an instance that is
\* not the host), and how many persist() calls have been made.
Notification(doc, mirror, host, registry, queues, at) ==
    [doc |-> doc,
     mirrored |-> (mirror = <<ToJson(doc)>>),
     broadcast |->
        (host => \A c \in registry :
                    conn[c].link = "open" =>
                        /\ queues[c] # <<>>
                        /\ queues[c][Len(queues[c])] = SyncState(doc)),
     at |-> at]

\* notifyListeners run before the mirror is written and the snapshot sent.
notifyListenersEarly(obs, doc, mirror, host, registry, queues, at) ==
    [obs EXCEPT !.calls =
        [l \in Callbacks |->
            IF l \in Range(obs.listeners)
            THEN <<Notification(doc, storage, host, registry, toFollower, at)>>
            ELSE obs.calls[l]]]

\* this.listeners.forEach(l => l({ ...this.state })), called when the mirror
\* is mirror and the queues are queues.
notifyListeners(obs, doc, mirror, host, registry, queues, at) ==
    [obs EXCEPT !.calls =
        [l \in Callbacks |->
            IF l \in Range(obs.listeners)
            THEN <<Notification(doc, mirror, host, registry, queues, at)>>
            ELSE obs.calls[l]]]

\* persist() that writes the mirror only while the instance is connected.
persistMirroringWhenConnected(doc) ==
    /\ persists < MaxPersists
    /\ persists' = persists + 1
    /\ state' = doc
    /\ storage' = IF connectionStatus = "connected" THEN <<ToJson(doc)>> ELSE storage
    /\ toFollower' = Snapshots(toFollower, Registered, isHost, doc)
    /\ observers' = notifyListeners(observers, doc, storage', isHost, Registered,
                                    toFollower', persists')

\* this.state = doc; this.persist()
persist(doc) ==
    /\ persists < MaxPersists
    /\ persists' = persists + 1
    /\ state' = doc
    /\ storage' = <<ToJson(doc)>>
    /\ toFollower' = Snapshots(toFollower, Registered, isHost, doc)
    /\ observers' = notifyListeners(observers, doc, storage', isHost, Registered,
                                    toFollower', persists')

\* What a mutator leaves alone, and what the receive callback does.
receiveFrame ==
    UNCHANGED <<isHost, peer, connections, connectionStatus, timerVars, conn,
                toHost, followerVars, logs, relay>>
mutatorFrame ==
    receiveFrame /\ UNCHANGED uncaught

NewId(studentName, rnd) ==
    Slug(studentName) \o "-" \o ToString(clock) \o "-" \o rnd

NewResponse(id, studentName, text) ==
    [id |-> id,
     studentName |-> studentName,
     text |-> text,
     submittedAt |-> clock,
     score |-> Null,
     aiSuggestedScore |-> UndefinedNum,
     aiFeedback |-> Undefined]

\* addAnswerInternal recording the answer only while the round is open, and
\* saving the document as it is otherwise.
addAnswerInternalGated(studentName, text, rnd) ==
    LET id == NewId(studentName, rnd)
    IN /\ Cardinality(DOMAIN state.students \cup {id}) <= MaxStudents
       /\ HasRoom(1)
       /\ IF state.isAcceptingAnswers
          THEN persist([state EXCEPT
                          !.students = Put(state.students, id,
                                           NewResponse(id, studentName, text))])
          ELSE persist(state)

addAnswerInternal(studentName, text, rnd) ==
    LET id == NewId(studentName, rnd)
    IN /\ Cardinality(DOMAIN state.students \cup {id}) <= MaxStudents
       /\ HasRoom(1)
       /\ persist([state EXCEPT
                     !.students = Put(state.students, id,
                                      NewResponse(id, studentName, text))])

setPrompt(prompt, maxScore) ==
    /\ HasRoom(1)
    /\ persist([state EXCEPT !.prompt = prompt,
                             !.maxScore = maxScore,
                             !.isAcceptingAnswers = TRUE,
                             !.projectorDisplay = PromptView])
    /\ mutatorFrame

\* TeacherDashboard.handleSetPrompt: the caller that clamps the max score.
handleSetPrompt(newPrompt, newMaxScore) ==
    setPrompt(newPrompt, Max(1, newMaxScore))

\* resetRound starting from the empty defaults, as resetGame does.
resetRoundFromDefaults ==
    /\ HasRoom(2)
    /\ resetTimers = 0
    /\ persists < MaxPersists
    /\ persists' = persists + 1
    /\ state' = [initialState EXCEPT !.roomCode = state.roomCode,
                                     !.isAcceptingAnswers = TRUE]
    /\ storage' = <<ToJson(state')>>
    /\ toFollower' =
         IF isHost
         THEN broadcast(Snapshots(toFollower, Registered, isHost, state'),
                        Registered, ResetForm)
         ELSE toFollower
    /\ observers' = notifyListeners(observers, state', storage', isHost, Registered,
                                    Snapshots(toFollower, Registered, isHost, state'),
                                    persists')
    /\ resetTimers' = IF isHost THEN 2 ELSE 0
    /\ UNCHANGED <<logs, relay, uncaught,
                   isHost, peer, connections, connectionStatus, clock,
                   snapTimers, conn, toHost, followerVars>>

resetRound ==
    /\ HasRoom(2)
    /\ resetTimers = 0
    /\ persists < MaxPersists
    /\ persists' = persists + 1
    /\ state' = [state EXCEPT !.students = EmptyMap,
                              !.isAcceptingAnswers = TRUE,
                              !.projectorDisplay = PromptView]
    /\ storage' = <<ToJson(state')>>
    /\ toFollower' =
         IF isHost
         THEN broadcast(Snapshots(toFollower, Registered, isHost, state'),
                        Registered, ResetForm)
         ELSE toFollower
    /\ observers' = notifyListeners(observers, state', storage', isHost, Registered,
                                    Snapshots(toFollower, Registered, isHost, state'),
                                    persists')
    /\ resetTimers' = IF isHost THEN 2 ELSE 0
    /\ UNCHANGED <<logs, relay, uncaught,
                   isHost, peer, connections, connectionStatus, clock,
                   snapTimers, conn, toHost, followerVars>>

\* toggleAccepting that also takes the projector back to the prompt.
toggleAcceptingToPrompt(accepting) ==
    /\ HasRoom(1)
    /\ persist([state EXCEPT !.isAcceptingAnswers = accepting,
                             !.projectorDisplay = PromptView])
    /\ mutatorFrame

toggleAccepting(accepting) ==
    /\ HasRoom(1)
    /\ persist([state EXCEPT !.isAcceptingAnswers = accepting])
    /\ mutatorFrame

setProjectorView(type, answerId) ==
    /\ HasRoom(1)
    /\ persist([state EXCEPT
                  !.projectorDisplay = [type |-> type, contentId |-> answerId]])
    /\ mutatorFrame

updateStudentScore(id, score) ==
    /\ HasRoom(1)
    /\ IF HasProperty(state.students, id)
       THEN persist([state EXCEPT
                       !.students = Put(state.students, id,
                           [SpreadEntry(state.students, id) EXCEPT
                               !["score"] = score])])
       ELSE UNCHANGED <<state, storage, persists, toFollower, observers>>
    /\ mutatorFrame

\* updateStudentAiData taking the suggestion as the score as well.
updateStudentAiDataScoring(id, score, feedback) ==
    /\ HasRoom(1)
    /\ IF HasProperty(state.students, id)
       THEN persist([state EXCEPT
                       !.students = Put(state.students, id,
                           [SpreadEntry(state.students, id) EXCEPT
                               !["score"] = score,
                               !["aiSuggestedScore"] = score,
                               !["aiFeedback"] = feedback])])
       ELSE UNCHANGED <<state, storage, persists, toFollower, observers>>
    /\ mutatorFrame

updateStudentAiData(id, score, feedback) ==
    /\ HasRoom(1)
    /\ IF HasProperty(state.students, id)
       THEN persist([state EXCEPT
                       !.students = Put(state.students, id,
                           [SpreadEntry(state.students, id) EXCEPT
                               !["aiSuggestedScore"] = score,
                               !["aiFeedback"] = feedback])])
       ELSE UNCHANGED <<state, storage, persists, toFollower, observers>>
    /\ mutatorFrame

\* resetGame that goes back to the defaults, room code included.
resetGameToDefaults ==
    /\ HasRoom(1)
    /\ persist(initialState)
    /\ mutatorFrame

resetGame ==
    /\ HasRoom(1)
    /\ persist([initialState EXCEPT !.roomCode = state.roomCode])
    /\ mutatorFrame

\* sendAnswer called on the host instance.
hostSendAnswer(studentName, text, rnd) ==
    /\ IF isHost
       THEN addAnswerInternal(studentName, text, rnd)
       ELSE UNCHANGED <<state, storage, persists, toFollower, observers>>
    /\ mutatorFrame

\* handleMessage(msg): only a host acts, and only on SUBMIT_ANSWER.
\* Destructuring { name, text } = msg.payload throws a TypeError when there is
\* no payload, and so does studentName.toLowerCase() in addAnswerInternal
\* when the payload has no name; nothing has been changed by then, and
\* nothing catches the exception.
Throws(msg) ==
    \/ "payload" \notin DOMAIN msg
    \/ "name" \notin DOMAIN msg.payload
handleMessage(msg, rnd) ==
    IF isHost /\ msg.type = "SUBMIT_ANSWER"
    THEN IF Throws(msg)
         THEN /\ uncaught' = TRUE
              /\ UNCHANGED <<state, storage, persists, toFollower, observers>>
         ELSE /\ addAnswerInternal(msg.payload.name,
                                   IF "text" \in DOMAIN msg.payload
                                   THEN msg.payload.text ELSE Undefined, rnd)
              /\ UNCHANGED uncaught
    ELSE UNCHANGED <<state, storage, persists, toFollower, observers, uncaught>>

\* The host's conn.on('data') for the next message in flight on c.
hostOnData(c, rnd) ==
    /\ toHost[c] # <<>>
    /\ handleMessage(Head(toHost[c]), rnd)
    /\ toHost' = [toHost EXCEPT ![c] = Tail(@)]
    /\ UNCHANGED <<logs, relay,
                   isHost, peer, connections, connectionStatus, timerVars, conn,
                   followerVars>>

\* The host's conn.on('data') seen from the host alone: a remote peer that
\* reached the open host peer delivers msg.
messageArrives(msg, rnd) ==
    /\ peer.exists /\ peer.open
    /\ handleMessage(msg, rnd)
    /\ receiveFrame

\* ------------------------------------------------------------------------
\* Hosting
\* ------------------------------------------------------------------------

Truthy(code) == code # Undefined /\ code # ""

\* Closing every data connection of the host's peer (peer.destroy()).
DestroyPeer(conns) ==
    [c \in ConnIds |->
        IF conns[c].link = "open" THEN [conns[c] EXCEPT !.link = "closed"]
        ELSE conns[c]]

\* Messages in flight on a connection that is no longer open are lost.
Flush(queues, conns) ==
    [c \in ConnIds |-> IF conns[c].link = "open" THEN queues[c] ELSE <<>>]

\* startHosting without the reuse branch: every call constructs a peer.
startHostingNewPeer(generated) ==
    LET code == IF Truthy(state.roomCode) THEN state.roomCode ELSE generated
    IN /\ HasRoom(1)
       /\ persists < MaxPersists
       /\ persists' = persists + 1
       /\ isHost' = TRUE
       /\ state' = [state EXCEPT !.roomCode = code]
       /\ storage' = <<ToJson(state')>>
       /\ toFollower' = Snapshots(toFollower, Registered, TRUE, state')
       /\ observers' = notifyListeners(observers, state', storage', TRUE, Registered,
                                       toFollower', persists')
       /\ connectionStatus' = "connecting"
       /\ peer' = NewPeer(code)
       /\ UNCHANGED <<logs, relay, uncaught,
                      connections, timerVars, conn, toHost, followerVars>>

startHosting(generated) ==
    LET code == IF Truthy(state.roomCode) THEN state.roomCode ELSE generated
    IN /\ HasRoom(1)
       /\ persists < MaxPersists
       /\ persists' = persists + 1
       /\ isHost' = TRUE
       /\ state' = [state EXCEPT !.roomCode = code]
       /\ storage' = <<ToJson(state')>>
       /\ toFollower' = Snapshots(toFollower, Registered, TRUE, state')
       /\ observers' = notifyListeners(observers, state', storage', TRUE, Registered,
                                       toFollower', persists')
       /\ IF peer.exists
          THEN /\ connectionStatus' = "connected"
               /\ peer' = peer
          ELSE /\ connectionStatus' = "connecting"
               /\ peer' = NewPeer(code)
       /\ UNCHANGED <<logs, relay, uncaught,
                      connections, timerVars, conn, toHost, followerVars>>

\* startNewClass keeping the room code it already has, as startHosting does.
startNewClassReusingCode(generated) ==
    LET code == IF Truthy(state.roomCode) THEN state.roomCode ELSE generated
    IN /\ persists + 2 <= MaxPersists
       /\ persists' = persists + 2
       /\ conn' = IF peer.exists THEN DestroyPeer(conn) ELSE conn
       /\ connections' = <<>>
       /\ isHost' = TRUE
       /\ connectionStatus' = "connecting"
       /\ state' = [initialState EXCEPT !.roomCode = code]
       /\ storage' = <<ToJson(state')>>
       /\ peer' = NewPeer(code)
       /\ toFollower' = Flush(toFollower, conn')
       /\ toHost' = Flush(toHost, conn')
       /\ observers' =
            notifyListeners(
                notifyListeners(observers, initialState, <<ToJson(initialState)>>,
                                isHost, {}, toFollower', persists + 1),
                state', storage', TRUE, {}, toFollower', persists')
       /\ UNCHANGED <<logs, relay, uncaught, timerVars, followerVars>>

\* startNewClass that starts the new room on the peer and the registry it
\* has.
startNewClassKeepingRegistry(generated) ==
    /\ persists + 2 <= MaxPersists
    /\ HasRoom(2)
    /\ persists' = persists + 2
    /\ isHost' = TRUE
    /\ connectionStatus' = "connecting"
    /\ state' = [initialState EXCEPT !.roomCode = generated]
    /\ storage' = <<ToJson(state')>>
    /\ peer' = NewPeer(generated)
    /\ toFollower' = broadcast(broadcast(toFollower, Registered, SyncState(initialState)),
                               Registered, SyncState(state'))
    /\ observers' =
         notifyListeners(
             notifyListeners(observers, initialState, <<ToJson(initialState)>>,
                             isHost, {}, toFollower', persists + 1),
             state', storage', TRUE, {}, toFollower', persists')
    /\ UNCHANGED <<logs, relay, uncaught, timerVars, followerVars, conn, connections,
                   toHost>>

startNewClass(generated) ==
    /\ persists + 2 <= MaxPersists
    /\ persists' = persists + 2
    /\ conn' = IF peer.exists THEN DestroyPeer(conn) ELSE conn
    /\ connections' = <<>>
    /\ isHost' = TRUE
    /\ connectionStatus' = "connecting"
    /\ state' = [initialState EXCEPT !.roomCode = generated]
    /\ storage' = <<ToJson(state')>>
    /\ peer' = NewPeer(generated)
    /\ toFollower' = Flush(toFollower, conn')
    /\ toHost' = Flush(toHost, conn')
    /\ observers' =
         notifyListeners(
             notifyListeners(observers, initialState, <<ToJson(initialState)>>,
                             isHost, {}, toFollower', persists + 1),
             state', storage', TRUE, {}, toFollower', persists')
    /\ UNCHANGED <<logs, relay, uncaught, timerVars, followerVars>>

\* peer.on('open') of the host's peer.
peerOnOpen ==
    /\ peer.exists /\ ~peer.open
    /\ peer.fault # "unavailable-id"
    /\ peer' = [peer EXCEPT !.open = TRUE,
                            !.resolved = IF @ = Undefined THEN peer.code ELSE @]
    /\ connectionStatus' = "connected"
    /\ UNCHANGED <<logs, relay, uncaught, observers,
                   state, isHost, connections, storage, persists, timerVars, netVars,
                   followerVars>>

\* peer.on('error') without the recovery branch: a taken identity is a
\* fault like the network faults.
peerOnErrorWithoutRecovery(type) ==
    /\ peer.exists
    /\ type = "unavailable-id" => ~peer.open
    /\ peer' = [peer EXCEPT !.fault = type,
                            !.resolved = IF @ = Undefined THEN peer.code ELSE @]
    /\ connectionStatus' =
         IF type \in {"unavailable-id", "network", "server-error", "socket-error"}
         THEN "error"
         ELSE connectionStatus
    /\ UNCHANGED <<logs, relay, uncaught, observers,
                   state, isHost, connections, storage, persists, timerVars, netVars,
                   followerVars>>

\* peer.on('error') of the host's peer.  'unavailable-id' is what the
\* signalling server answers instead of 'open' when the identity is taken.
peerOnError(type) ==
    /\ peer.exists
    /\ type = "unavailable-id" => ~peer.open
    /\ peer' = [peer EXCEPT !.fault = type,
                            !.resolved = IF @ = Undefined THEN peer.code ELSE @]
    /\ connectionStatus' =
         IF type = "unavailable-id" THEN "connected"
         ELSE IF type \in {"network", "server-error", "socket-error"} THEN "error"
         ELSE connectionStatus
    /\ UNCHANGED <<logs, relay, uncaught, observers,
                   state, isHost, connections, storage, persists, timerVars, netVars,
                   followerVars>>

\* startHosting when new Peer(...) throws: the catch block.
startHostingThrows(generated) ==
    LET code == IF Truthy(state.roomCode) THEN state.roomCode ELSE generated
    IN /\ ~peer.exists
       /\ HasRoom(1)
       /\ persists < MaxPersists
       /\ persists' = persists + 1
       /\ isHost' = TRUE
       /\ state' = [state EXCEPT !.roomCode = code]
       /\ storage' = <<ToJson(state')>>
       /\ toFollower' = Snapshots(toFollower, Registered, TRUE, state')
       /\ observers' = notifyListeners(observers, state', storage', TRUE, Registered,
                                       toFollower', persists')
       /\ connectionStatus' = "error"
       /\ UNCHANGED <<logs, relay, uncaught,
                      peer, connections, timerVars, conn, toHost, followerVars>>

\* The signalling link drops and nothing calls peer.reconnect().
signalingLostUnhandled ==
    /\ peer.exists /\ peer.open
    /\ peer.reconnects < MaxReconnects
    /\ peer' = [peer EXCEPT !.open = FALSE, !.disconnected = TRUE]
    /\ UNCHANGED <<logs, relay, uncaught, observers,
                   state, isHost, connections, connectionStatus, storage, persists,
                   timerVars, netVars, followerVars>>

\* The signalling link of the host's open peer drops: the peer becomes
\* disconnected and emits 'disconnected', and peer.on('disconnected') calls
\* peer.reconnect() on the peer, which is not destroyed.  reconnect() clears
\* peer.disconnected and opens the link again; 'open' follows.  Data
\* connections do not depend on the signalling link.
signalingLost ==
    /\ peer.exists /\ peer.open
    /\ peer.reconnects < MaxReconnects
    /\ peer' = [peer EXCEPT !.open = FALSE, !.disconnected = FALSE,
                            !.reconnects = @ + 1]
    /\ UNCHANGED <<logs, relay, uncaught, observers,
                   state, isHost, connections, connectionStatus, storage, persists,
                   timerVars, netVars, followerVars>>

\* A tick of the interval of startHeartbeat:
\* if (this.peer && this.peer.disconnected && !this.peer.destroyed) reconnect.
\* A destroyed peer is one startNewClass has replaced or a reload has
\* dropped: this.peer is never left pointing at it.
heartbeat ==
    IF peer.exists /\ peer.disconnected
    THEN /\ peer.reconnects < MaxReconnects
         /\ peer' = [peer EXCEPT !.disconnected = FALSE, !.reconnects = @ + 1]
         /\ UNCHANGED <<logs, relay, uncaught, observers,
                        state, isHost, connections, connectionStatus, storage,
                        persists, timerVars, netVars, followerVars>>
    ELSE UNCHANGED vars

\* The 'storage' listener of the constructor.  Another tab of the device has
\* set the mirror to newValue (<<>> when it removed the key); the instance
\* takes the document over if it is not the host and newValue is not empty.
storageEvent(newValue) ==
    /\ newValue # storage
    /\ storage' = newValue
    /\ IF newValue # <<>> /\ ~isHost
       THEN /\ state' = FromJson(newValue[1])
            /\ observers' = notifyListeners(observers, state', storage', isHost,
                                            Registered, toFollower, persists)
       ELSE UNCHANGED <<state, observers>>
    /\ UNCHANGED <<logs, relay, uncaught,
                   isHost, peer, connections, connectionStatus, persists,
                   timerVars, netVars, followerVars>>

\* conn.on('open') at the host that registers the connection and leaves the
\* first snapshot to the next persist().
hostOnOpenRegisterOnly(c) ==
    /\ conn[c].link = "open"
    /\ c \notin Registered
    /\ connections' = Append(connections, c)
    /\ UNCHANGED <<logs, relay, uncaught, observers,
                   state, isHost, peer, connectionStatus, storage, persists,
                   timerVars, netVars, followerVars>>

\* conn.on('open') at the host: register, and arm the initial snapshot.
hostOnOpen(c) ==
    /\ conn[c].link = "open"
    /\ c \notin Registered
    /\ connections' = Append(connections, c)
    /\ snapTimers' = snapTimers \cup {c}
    /\ UNCHANGED <<logs, relay, uncaught, observers,
                   state, isHost, peer, connectionStatus, storage, persists, clock,
                   resetTimers, netVars, followerVars>>

\* The delayed initial snapshot carrying the document the service started
\* with instead of the one it has when the timer fires.
snapshotTimerStale(c) ==
    /\ c \in snapTimers
    /\ conn[c].link = "open" => Len(toFollower[c]) < MaxQueue
    /\ snapTimers' = snapTimers \ {c}
    /\ toFollower' = IF conn[c].link = "open"
                     THEN [toFollower EXCEPT ![c] = Append(@, SyncState(initialState))]
                     ELSE toFollower
    /\ UNCHANGED <<logs, relay, uncaught, observers,
                   hostVars, clock, resetTimers, conn, toHost, followerVars>>

\* setTimeout(() => conn.send({ type: 'SYNC_STATE', payload: this.state }), 100)
snapshotTimer(c) ==
    /\ c \in snapTimers
    /\ conn[c].link = "open" => Len(toFollower[c]) < MaxQueue
    /\ snapTimers' = snapTimers \ {c}
    /\ toFollower' = IF conn[c].link = "open"
                     THEN [toFollower EXCEPT ![c] = Append(@, SyncState(state))]
                     ELSE toFollower
    /\ UNCHANGED <<logs, relay, uncaught, observers,
                   hostVars, clock, resetTimers, conn, toHost, followerVars>>

\* A delayed timer of resetRound that fires and sends nothing.
resetTimerIdle ==
    /\ resetTimers > 0
    /\ HasRoom(1)
    /\ resetTimers' = resetTimers - 1
    /\ UNCHANGED <<logs, relay, uncaught, observers, toFollower,
                   hostVars, clock, snapTimers, conn, toHost, followerVars>>

\* setTimeout(() => this.broadcast({ type: 'RESET_FORM' }), 500 / 1000)
resetTimer ==
    /\ resetTimers > 0
    /\ HasRoom(1)
    /\ resetTimers' = resetTimers - 1
    /\ toFollower' = broadcast(toFollower, Registered, ResetForm)
    /\ UNCHANGED <<logs, relay, uncaught, observers,
                   hostVars, clock, snapTimers, conn, toHost, followerVars>>

\* conn.on('close') at the host that starts the registry afresh.
hostOnCloseClearing(c) ==
    /\ conn[c].link = "closed"
    /\ c \in Registered
    /\ connections' = <<>>
    /\ UNCHANGED <<logs, relay, uncaught, observers,
                   state, isHost, peer, connectionStatus, storage, persists, timerVars,
                   netVars, followerVars>>

\* conn.on('close') at the host.
hostOnClose(c) ==
    /\ conn[c].link = "closed"
    /\ c \in Registered
    /\ connections' = SelectSeq(connections, LAMBDA x : x # c)
    /\ UNCHANGED <<logs, relay, uncaught, observers,
                   state, isHost, peer, connectionStatus, storage, persists, timerVars,
                   netVars, followerVars>>

\* ------------------------------------------------------------------------
\* Followers
\* ------------------------------------------------------------------------

FreeConns == {c \in ConnIds : conn[c].link = "unused"}

Reachable(code) ==
    peer.exists /\ peer.open /\ peer.id = APP_PREFIX \o ToUpperCase(code)

\* joinGame whose peer.on('error') only logs 'peer-unavailable' and leaves
\* the promise to the caller unsettled.
joinGameLoggingOnly(f, code) ==
    /\ FreeConns # {}
    /\ LET c == CHOOSE x \in FreeConns : \A y \in FreeConns : x <= y
           old == fConn[f]
           torn == IF old # NoConn /\ conn[old].link = "open"
                   THEN [conn EXCEPT ![old].link = "closed"] ELSE conn
       IN /\ conn' = IF Reachable(code)
                     THEN [torn EXCEPT ![c] =
                             [owner |-> f, target |-> ToUpperCase(code),
                              link |-> "open", fOpen |-> FALSE,
                              promise |-> "pending", timer |-> TRUE]]
                     ELSE torn
          /\ toFollower' = Flush(toFollower, conn')
          /\ toHost' = Flush(toHost, conn')
    /\ joinError' = [joinError EXCEPT ![f] = NoError]
    /\ UNCHANGED <<logs, relay, uncaught, observers, fStatus,
                   hostVars, timerVars, fState, fConn, resetListeners, resetCount>>

\* joinGame(code, studentName) with the connection attempt that follows.  An
\* attempt that cannot reach the host's identity installs nothing.
joinGame(f, code) ==
    /\ FreeConns # {}
    /\ LET c == CHOOSE x \in FreeConns : \A y \in FreeConns : x <= y
           old == fConn[f]
           torn == IF old # NoConn /\ conn[old].link = "open"
                   THEN [conn EXCEPT ![old].link = "closed"] ELSE conn
       IN /\ conn' = IF Reachable(code)
                     THEN [torn EXCEPT ![c] =
                             [owner |-> f, target |-> ToUpperCase(code),
                              link |-> "open", fOpen |-> FALSE,
                              promise |-> "pending", timer |-> TRUE]]
                     ELSE torn
          /\ toFollower' = Flush(toFollower, conn')
          /\ toHost' = Flush(toHost, conn')
    /\ joinError' = [joinError EXCEPT ![f] =
                        IF Reachable(code) THEN NoError ELSE ClassNotFound]
    /\ UNCHANGED <<logs, relay, uncaught, observers, fStatus,
                   hostVars, timerVars, fState, fConn, resetListeners, resetCount>>

\* conn.on('open') at the follower.
followerOnOpen(c) ==
    /\ conn[c].link = "open"
    /\ ~conn[c].fOpen
    /\ Len(toHost[c]) < MaxQueue
    /\ conn' = [conn EXCEPT ![c].fOpen = TRUE,
                            ![c].promise = IF @ = "pending" THEN "resolved" ELSE @]
    /\ fConn' = [fConn EXCEPT ![conn[c].owner] = c]
    /\ toHost' = [toHost EXCEPT ![c] = Append(@, JoinRequest(NameOf(conn[c].owner)))]
    /\ UNCHANGED <<logs, relay, uncaught, observers, fStatus,
                   hostVars, timerVars, toFollower, fState, resetListeners,
                   resetCount, joinError>>

\* The 10 s timeout that only logs and rejects nothing.
joinTimeoutLoggingOnly(c) ==
    /\ conn[c].timer
    /\ conn' = [conn EXCEPT ![c].timer = FALSE]
    /\ UNCHANGED <<logs, relay, uncaught, observers,
                   hostVars, timerVars, toFollower, toHost, followerVars>>

\* The 10 s timeout of an attempt: if (!conn.open) reject("Connection timed
\* out."), which settles the promise only if it is still pending.
joinTimeout(c) ==
    /\ conn[c].timer
    /\ conn' = [conn EXCEPT
                  ![c].timer = FALSE,
                  ![c].promise =
                      IF ~(conn[c].fOpen /\ conn[c].link = "open") /\ @ = "pending"
                      THEN ConnectionTimedOut ELSE @]
    /\ UNCHANGED <<logs, relay, uncaught, observers,
                   hostVars, timerVars, toFollower, toHost, followerVars>>

\* joinGame when the follower's own peer reports an error other than
\* 'peer-unavailable' before any connection exists: reject(err).
joinGameFault(f, type) ==
    /\ LET old == fConn[f]
       IN conn' = IF old # NoConn /\ conn[old].link = "open"
                  THEN [conn EXCEPT ![old].link = "closed"] ELSE conn
    /\ toFollower' = Flush(toFollower, conn')
    /\ toHost' = Flush(toHost, conn')
    /\ joinError' = [joinError EXCEPT ![f] = type]
    /\ UNCHANGED <<logs, relay, uncaught, observers, fStatus,
                   hostVars, timerVars, fState, fConn, resetListeners, resetCount>>

\* notifyReset with one-shot callbacks: each is removed once it has run.
notifyResetOnce(f) ==
    /\ resetCount' = [resetCount EXCEPT ![f] =
                        IF @ + resetListeners[f] > MaxResetCount
                        THEN MaxResetCount ELSE @ + resetListeners[f]]
    /\ resetListeners' = [resetListeners EXCEPT ![f] = 0]

\* this.resetListeners.forEach(l => l()): every registered callback runs
\* once, and the list is left as it was.
notifyReset(f) ==
    /\ resetCount' = [resetCount EXCEPT ![f] =
                        IF @ + resetListeners[f] > MaxResetCount
                        THEN MaxResetCount ELSE @ + resetListeners[f]]
    /\ UNCHANGED resetListeners

\* conn.on('data') at the follower that merges a snapshot's answers into the
\* answers the replica already has.
followerOnDataMerging(c) ==
    /\ conn[c].link = "open"
    /\ conn[c].fOpen
    /\ toFollower[c] # <<>>
    /\ LET msg == Head(toFollower[c])
           f == conn[c].owner
           doc == FromJson(msg.payload)
           kept == DOMAIN fState[f].students \ DOMAIN doc.students
       IN /\ IF msg.type = "SYNC_STATE"
             THEN fState' = [fState EXCEPT ![f] =
                     [doc EXCEPT !.students =
                         [id \in DOMAIN doc.students \cup kept |->
                             IF id \in kept THEN fState[f].students[id]
                             ELSE doc.students[id]]]]
             ELSE UNCHANGED fState
          /\ IF msg.type = "RESET_FORM"
             THEN notifyReset(f)
             ELSE UNCHANGED <<resetCount, resetListeners>>
    /\ toFollower' = [toFollower EXCEPT ![c] = Tail(@)]
    /\ UNCHANGED <<logs, relay, uncaught, observers, fStatus,
                   hostVars, timerVars, conn, toHost, fConn, joinError>>

\* conn.on('data') at the follower.
followerOnData(c) ==
    /\ conn[c].link = "open"
    /\ conn[c].fOpen
    /\ toFollower[c] # <<>>
    /\ LET msg == Head(toFollower[c])
           f == conn[c].owner
       IN /\ IF msg.type = "SYNC_STATE"
             THEN fState' = [fState EXCEPT ![f] = FromJson(msg.payload)]
             ELSE UNCHANGED fState
          /\ IF msg.type = "RESET_FORM"
             THEN notifyReset(f)
             ELSE UNCHANGED <<resetCount, resetListeners>>
    /\ toFollower' = [toFollower EXCEPT ![c] = Tail(@)]
    /\ UNCHANGED <<logs, relay, uncaught, observers, fStatus,
                   hostVars, timerVars, conn, toHost, fConn, joinError>>

\* sendAnswer called on a follower instance.
followerSendAnswer(f, text) ==
    /\ fConn[f] # NoConn
    /\ conn[fConn[f]].link = "open"
    /\ Len(toHost[fConn[f]]) < MaxQueue
    /\ toHost' = [toHost EXCEPT ![fConn[f]] =
                    Append(@, SubmitAnswer(NameOf(f), text))]
    /\ UNCHANGED <<logs, relay, uncaught, observers,
                   hostVars, timerVars, conn, toFollower, followerVars>>

subscribeReset(f) ==
    /\ resetListeners[f] < MaxListeners
    /\ resetListeners' = [resetListeners EXCEPT ![f] = @ + 1]
    /\ UNCHANGED <<logs, relay, uncaught, observers, fStatus,
                   hostVars, timerVars, netVars, fState, fConn, resetCount,
                   joinError>>

\* The function subscribeReset returned.
unsubscribeReset(f) ==
    /\ resetListeners[f] > 0
    /\ resetListeners' = [resetListeners EXCEPT ![f] = @ - 1]
    /\ UNCHANGED <<logs, relay, uncaught, observers, fStatus,
                   hostVars, timerVars, netVars, fState, fConn, resetCount,
                   joinError>>

\* The data connection closes (the student leaves, or the link drops).
connectionCloses(c) ==
    /\ conn[c].link = "open"
    /\ conn' = [conn EXCEPT ![c].link = "closed"]
    /\ toFollower' = [toFollower EXCEPT ![c] = <<>>]
    /\ toHost' = [toHost EXCEPT ![c] = <<>>]
    /\ UNCHANGED <<logs, relay, uncaught, observers, hostVars, timerVars, followerVars>>

\* Date.now() advances.
tick ==
    /\ clock < MaxClock
    /\ clock' = clock + 1
    /\ UNCHANGED <<logs, relay, uncaught, observers,
                   hostVars, snapTimers, resetTimers, netVars, followerVars>>

\* ------------------------------------------------------------------------
\* The service object: construction, the log, the observers
\* ------------------------------------------------------------------------

\* A reload of the host's page that starts from the defaults and ignores
\* the mirror.
reloadFresh ==
    /\ state' = initialState
    /\ isHost' = FALSE
    /\ peer' = NoPeer
    /\ connections' = <<>>
    /\ connectionStatus' = "disconnected"
    /\ conn' = IF peer.exists THEN DestroyPeer(conn) ELSE conn
    /\ toFollower' = Flush(toFollower, conn')
    /\ toHost' = Flush(toHost, conn')
    /\ snapTimers' = {}
    /\ resetTimers' = 0
    /\ logs' = <<1>>
    /\ uncaught' = FALSE
    /\ observers' = NoObservers
    /\ UNCHANGED <<storage, persists, clock, followerVars, relay>>

\* The host's page is reloaded: its peer, timers, log and subscriptions go
\* with the old page, and the constructor of the new service reads the
\* mirror: saved ? JSON.parse(saved) : initialState.  The mirror stays.
reload ==
    /\ state' = IF storage = <<>> THEN initialState ELSE FromJson(storage[1])
    /\ isHost' = FALSE
    /\ peer' = NoPeer
    /\ connections' = <<>>
    /\ connectionStatus' = "disconnected"
    /\ conn' = IF peer.exists THEN DestroyPeer(conn) ELSE conn
    /\ toFollower' = Flush(toFollower, conn')
    /\ toHost' = Flush(toHost, conn')
    /\ snapTimers' = {}
    /\ resetTimers' = 0
    /\ logs' = <<1>>
    /\ uncaught' = FALSE
    /\ observers' = NoObservers
    /\ UNCHANGED <<storage, persists, clock, followerVars, relay>>

\* The log is written by the handlers and read by nothing that acts on it,
\* so a logged event is a step of its own; an entry is represented by the
\* serial number of its event.

\* addLog without the limit.
addLogUncapped ==
    /\ logs[1] < MaxEvents
    /\ logs' = <<logs[1] + 1>> \o logs
    /\ UNCHANGED <<hostVars, timerVars, netVars, followerVars, uncaught, observers,
                   relay>>

\* this.logs.unshift(entry);
\* if (this.logs.length > 200) this.logs = this.logs.slice(0, 200)
addLog ==
    /\ logs[1] < MaxEvents
    /\ LET unshifted == <<logs[1] + 1>> \o logs
       IN logs' = IF Len(unshifted) > LogLimit
                  THEN SubSeq(unshifted, 1, LogLimit) ELSE unshifted
    /\ UNCHANGED <<hostVars, timerVars, netVars, followerVars, uncaught, observers,
                   relay>>

\* subscribe(callback): push, then callback(this.state).
subscribe(l) ==
    /\ Len(observers.listeners) < MaxObservers
    /\ observers' =
         [listeners |-> Append(observers.listeners, l),
          calls |-> [observers.calls EXCEPT ![l] =
                        <<Notification(state, storage, isHost, Registered,
                                       toFollower, persists)>>]]
    /\ UNCHANGED <<hostVars, timerVars, netVars, followerVars, logs, uncaught, relay>>

\* An unsubscribe function that empties the list.
unsubscribeAll(l) ==
    /\ l \in Range(observers.listeners)
    /\ observers' = [observers EXCEPT !.listeners = <<>>]
    /\ UNCHANGED <<hostVars, timerVars, netVars, followerVars, logs, uncaught, relay>>

\* The function subscribe(l) returned:
\* this.listeners = this.listeners.filter(x => x !== callback)
unsubscribe(l) ==
    /\ l \in Range(observers.listeners)
    /\ observers' = [observers EXCEPT
                        !.listeners = SelectSeq(@, LAMBDA x : x # l)]
    /\ UNCHANGED <<hostVars, timerVars, netVars, followerVars, logs, uncaught, relay>>

\* ------------------------------------------------------------------------
\* The relay server
\* ------------------------------------------------------------------------

\* The relay is a program of its own: it shares nothing with the service.
serviceVars == <<hostVars, timerVars, netVars, followerVars, logs, uncaught, observers>>

\* io.on('connection'): a socket is in the room named by its own id.
connection(s) ==
    /\ s \notin relay.connected
    /\ relay' = [relay EXCEPT !.connected = @ \cup {s},
                              !.rooms[s] = {s},
                              !.inbox[s] = <<>>]
    /\ UNCHANGED serviceVars

\* socket.on('join_room', roomCode => socket.join(roomCode))
join_room(s, roomCode) ==
    /\ s \in relay.connected
    /\ relay' = [relay EXCEPT !.rooms[s] = @ \cup {roomCode}]
    /\ UNCHANGED serviceVars

\* The relay emitting to the whole room, the sender included.
messageToAll(s, roomCode, msg) ==
    LET to == {t \in relay.connected : roomCode \in relay.rooms[t]}
    IN /\ s \in relay.connected
       /\ \A t \in to : Len(relay.inbox[t]) < MaxInbox
       /\ relay' = [relay EXCEPT !.inbox =
                        [t \in Sockets |-> IF t \in to THEN Append(@[t], msg) ELSE @[t]]]
       /\ UNCHANGED serviceVars

\* socket.on('message', ({ roomCode, message }) =>
\*     socket.to(roomCode).emit('message', message))
message(s, roomCode, msg) ==
    LET to == {t \in relay.connected : t # s /\ roomCode \in relay.rooms[t]}
    IN /\ s \in relay.connected
       /\ \A t \in to : Len(relay.inbox[t]) < MaxInbox
       /\ relay' = [relay EXCEPT !.inbox =
                        [t \in Sockets |-> IF t \in to THEN Append(@[t], msg) ELSE @[t]]]
       /\ UNCHANGED serviceVars

\* socket.on('disconnect'): the socket has left every room.
disconnect(s) ==
    /\ s \in relay.connected
    /\ relay' = [relay EXCEPT !.connected = @ \ {s},
                              !.rooms[s] = {},
                              !.inbox[s] = <<>>]
    /\ UNCHANGED serviceVars

\* The client of socket s takes the next 'message' event it was sent.
clientReceives(s) ==
    /\ relay.inbox[s] # <<>>
    /\ relay' = [relay EXCEPT !.inbox[s] = Tail(@)]
    /\ UNCHANGED serviceVars

\* ------------------------------------------------------------------------
\* Specifications
\* ------------------------------------------------------------------------

StudentIds == DOMAIN state.students

\* Messages a remote peer may deliver to the host.
InboundMessages ==
    {SubmitAnswer(n, t) : n \in Names, t \in Texts}
        \cup {JoinRequest(n) : n \in Names}

SetPrompt == \E p \in Prompts, m \in MaxScoreArgs : setPrompt(p, m)
HandleSetPrompt == \E p \in Prompts, m \in DashboardMaxScores : handleSetPrompt(p, m)
ResetRound == resetRound
ToggleAccepting == \E b \in BOOLEAN : toggleAccepting(b)
SetProjectorView ==
    \/ setProjectorView("prompt", Undefined)
    \/ \E id \in StudentIds \cup {"ghost"} : setProjectorView("answer", id)
UpdateStudentScore ==
    \E id \in StudentIds \cup StrayIds, s \in ScoreArgs : updateStudentScore(id, s)
UpdateStudentAiData ==
    \E id \in StudentIds \cup {"ghost"}, s \in AiScoreArgs, fb \in AiFeedbackArgs :
        updateStudentAiData(id, s, fb)
ResetGame == resetGame
HostSendAnswer ==
    \E n \in Names, t \in Texts, r \in RandomSuffixes : hostSendAnswer(n, t, r)
MessageArrives ==
    \E msg \in InboundMessages, r \in RandomSuffixes : messageArrives(msg, r)
StartHosting == \E g \in RandomCodes : startHosting(g)
StartNewClass == \E g \in RandomCodes : startNewClass(g)
PeerOnOpen == peerOnOpen
PeerOnError == \E t \in HostErrorTypes : peerOnError(t)
StartHostingThrows == \E g \in RandomCodes : startHostingThrows(g)
ResetTimer == resetTimer
Tick == tick

\* The host's service alone: every mutator with every argument, and the
\* messages remote peers deliver to it.
Next ==
    \/ SetPrompt
    \/ HandleSetPrompt
    \/ ResetRound
    \/ ToggleAccepting
    \/ SetProjectorView
    \/ UpdateStudentScore
    \/ UpdateStudentAiData
    \/ ResetGame
    \/ HostSendAnswer
    \/ MessageArrives
    \/ StartHosting
    \/ StartNewClass
    \/ StartHostingThrows
    \/ PeerOnOpen
    \/ PeerOnError
    \/ ResetTimer
    \/ Tick

Spec == Init /\ [][Next]_vars

\* The host's mutators in the specifications with followers.
NetBudget == persists < MaxNetPersists
NetSetPrompt == NetBudget /\ setPrompt("Explain X", 3)
NetUpdateStudentScore ==
    NetBudget /\ \E id \in StudentIds : updateStudentScore(id, 2)
NetResetRound == NetBudget /\ resetRound
NetResetGame == NetBudget /\ resetGame
NetStartHosting == NetBudget /\ \E g \in RandomCodes : startHosting(g)
NetStartNewClass ==
    persists + 2 <= MaxNetPersists /\ \E g \in RandomCodes : startNewClass(g)
HostOnData ==
    NetBudget /\ \E c \in ConnIds, r \in RandomSuffixes : hostOnData(c, r)
HostOnOpen == \E c \in ConnIds : hostOnOpen(c)
SnapshotTimer == \E c \in ConnIds : snapshotTimer(c)
HostOnClose == \E c \in ConnIds : hostOnClose(c)
JoinGame ==
    /\ Cardinality(ConnIds \ FreeConns) < MaxNetConns
    /\ \E f \in Followers, code \in TypedCodes : joinGame(f, code)
FollowerOnOpen == \E c \in ConnIds : followerOnOpen(c)
FollowerOnData == \E c \in ConnIds : followerOnData(c)
FollowerSendAnswer == \E f \in Followers : followerSendAnswer(f, "my answer")
SubscribeReset == \E f \in Followers : subscribeReset(f)
UnsubscribeReset == \E f \in Followers : unsubscribeReset(f)
ConnectionCloses == \E c \in ConnIds : connectionCloses(c)

\* The host, a follower and the data connections between them.
NextNet ==
    \/ NetSetPrompt
    \/ NetUpdateStudentScore
    \/ NetResetRound
    \/ NetResetGame
    \/ NetStartHosting
    \/ NetStartNewClass
    \/ PeerOnOpen
    \/ HostOnOpen
    \/ HostOnData
    \/ HostOnClose
    \/ SnapshotTimer
    \/ ResetTimer
    \/ JoinGame
    \/ FollowerOnOpen
    \/ FollowerOnData
    \/ FollowerSendAnswer
    \/ ConnectionCloses

SpecNet == Init /\ [][NextNet]_vars

\* The follower's RESET_FORM handling: the host resets rounds, the follower
\* registers and removes reset callbacks.
NextReset ==
    \/ NetResetRound
    \/ NetStartHosting
    \/ PeerOnOpen
    \/ HostOnOpen
    \/ HostOnClose
    \/ SnapshotTimer
    \/ ResetTimer
    \/ JoinGame
    \/ FollowerOnOpen
    \/ FollowerOnData
    \/ SubscribeReset
    \/ UnsubscribeReset
    \/ ConnectionCloses

SpecReset == Init /\ [][NextReset]_vars

\* Timers that are due fire, and a follower handles the events of its
\* connection.
ResetFairness ==
    /\ WF_vars(resetTimer)
    /\ \A c \in ConnIds :
        /\ WF_vars(followerOnOpen(c))
        /\ WF_vars(followerOnData(c))

SpecResetLive == Init /\ [][NextReset]_vars /\ ResetFairness

JoinTimeout == \E c \in ConnIds : joinTimeout(c)
JoinGameFault ==
    \E f \in Followers, t \in FollowerErrorTypes : joinGameFault(f, t)

\* Joining: the attempts of a follower, their promises and timeouts, and the
\* host's reaction to a connection that opens.
NextJoin ==
    \/ NetStartHosting
    \/ NetStartNewClass
    \/ PeerOnOpen
    \/ HostOnOpen
    \/ HostOnData
    \/ HostOnClose
    \/ SnapshotTimer
    \/ JoinGame
    \/ JoinGameFault
    \/ JoinTimeout
    \/ FollowerOnOpen
    \/ FollowerOnData
    \/ ConnectionCloses

\* Timers fire and queued events are handled: the browser's event loop runs
\* every callback that stays ready.
JoinFairness ==
    \A c \in ConnIds :
        /\ WF_vars(snapshotTimer(c))
        /\ WF_vars(joinTimeout(c))
        /\ WF_vars(followerOnOpen(c))
        /\ WF_vars(followerOnData(c))

SpecJoin == Init /\ [][NextJoin]_vars /\ JoinFairness

RegistryJoinGame == \E f \in Followers, code \in TypedCodes : joinGame(f, code)

\* The host's registry: connections open and close at the host while it
\* saves and broadcasts; no follower handles what it is sent.
NextRegistry ==
    \/ NetStartHosting
    \/ NetSetPrompt
    \/ PeerOnOpen
    \/ RegistryJoinGame
    \/ HostOnOpen
    \/ HostOnClose
    \/ SnapshotTimer
    \/ ConnectionCloses

SpecRegistry == Init /\ [][NextRegistry]_vars

\* The host alone, with reloads of its page.
NextReload ==
    \/ Next
    \/ reload

SpecReload == Init /\ [][NextReload]_vars

\* The log of one service instance.
NextLog ==
    \/ addLog
    \/ reload

SpecLog == Init /\ [][NextLog]_vars

\* What a remote peer can send besides a well-formed SUBMIT_ANSWER.
MalformedMessages ==
    {JoinRequest(n) : n \in Names}
        \cup {[type |-> "PING"],
              [type |-> "SUBMIT_ANSWER"],
              [type |-> "SUBMIT_ANSWER", payload |-> [text |-> "my answer"]]}

\* The host and the messages that reach it.
NextInbound ==
    \/ StartHosting
    \/ PeerOnOpen
    \/ PeerOnError
    \/ ToggleAccepting
    \/ MessageArrives
    \/ \E msg \in MalformedMessages, r \in RandomSuffixes : messageArrives(msg, r)
    \/ Tick

SpecInbound == Init /\ [][NextInbound]_vars

\* The relay server and its clients.
NextRelay ==
    \/ \E s \in Sockets : connection(s)
    \/ \E s \in Sockets, roomCode \in RandomCodes : join_room(s, roomCode)
    \/ \E s \in Sockets, roomCode \in RoomNames, msg \in RelayMessages :
          message(s, roomCode, msg)
    \/ \E s \in Sockets : disconnect(s)
    \/ \E s \in Sockets : clientReceives(s)

SpecRelay == Init /\ [][NextRelay]_vars

\* The host with observers of its document, saving and broadcasting while
\* connections open and close.
NextObservers ==
    \/ \E l \in Callbacks : subscribe(l)
    \/ \E l \in Callbacks : unsubscribe(l)
    \/ NetSetPrompt
    \/ NetResetRound
    \/ NetResetGame
    \/ NetStartHosting
    \/ NetStartNewClass
    \/ PeerOnOpen
    \/ JoinGame
    \/ HostOnOpen
    \/ HostOnClose
    \/ SnapshotTimer
    \/ ResetTimer
    \/ ConnectionCloses

SpecObservers == Init /\ [][NextObservers]_vars

\* The host's signalling link: hosting starts, the link opens, fails, drops
\* and is reconnected while connections are registered, the heartbeat ticks,
\* and other tabs of the device write the mirror.
NextSignal ==
    \/ NetStartHosting
    \/ NetStartNewClass
    \/ NetSetPrompt
    \/ StartHostingThrows
    \/ PeerOnOpen
    \/ PeerOnError
    \/ signalingLost
    \/ heartbeat
    \/ \E doc \in {initialState, [initialState EXCEPT !.prompt = "Explain X"]} :
          storageEvent(<<ToJson(doc)>>)
    \/ storageEvent(<<>>)
    \/ JoinGame
    \/ HostOnOpen
    \/ HostOnClose
    \/ ConnectionCloses

SpecSignal == Init /\ [][NextSignal]_vars

\* ------------------------------------------------------------------------
\* Properties
\* ------------------------------------------------------------------------

Quiescent ==
    /\ \A c \in ConnIds : toFollower[c] = <<>>
    /\ snapTimers = {}

\* The follower's joinGame has resolved: an upstream connection is installed.
Joined(f) == fConn[f] # NoConn

C2_AbsentIdIsNoOp ==
    [][\A id \in StrayIds \ StudentIds :
          (\/ \E sc \in ScoreArgs : updateStudentScore(id, sc)
           \/ \E sc \in AiScoreArgs, fb \in AiFeedbackArgs :
                 updateStudentAiData(id, sc, fb))
          => UNCHANGED <<state, storage, toFollower>>]_vars

\* C3: resetRound empties the students mapping, opens the round and shows
\* the prompt, and keeps prompt, maxScore and roomCode.
C3_ResetRound ==
    [][resetRound =>
          /\ state'.students = EmptyMap
          /\ state'.isAcceptingAnswers = TRUE
          /\ state'.projectorDisplay = PromptView
          /\ state'.prompt = state.prompt
          /\ state'.maxScore = state.maxScore
          /\ state'.roomCode = state.roomCode]_vars

\* A hosting teacher has reset a round whose prompt, max score and room
\* code are not the defaults.
C3_Witness ==
    /\ resetTimers = 2
    /\ state.students = EmptyMap
    /\ state.prompt = "Explain X"
    /\ state.maxScore = 3
    /\ Truthy(state.roomCode)

\* C4 as claimed: startNewClass leaves a roomCode different from the one
\* held before, and an empty students mapping.
C4_RoomCodeDiffers ==
    [][(\E g \in RandomCodes : startNewClass(g)) =>
          /\ state'.roomCode # state.roomCode
          /\ state'.students = EmptyMap]_vars

\* C4 amended: startNewClass leaves the newly generated roomCode, whatever
\* the code held before (which the generator may repeat), and an empty
\* students mapping.
C4_RoomCodeRegenerated ==
    [][\A g \in RandomCodes :
          startNewClass(g) =>
              /\ state'.roomCode = g
              /\ state'.students = EmptyMap]_vars

\* The host as startNewClass leaves it after two earlier saves: the default
\* document under the generated code, and a new peer that has not opened.
C4_Witness ==
    /\ persists = 4
    /\ state = [initialState EXCEPT !.roomCode = "CD34"]
    /\ peer = NewPeer("CD34")
    /\ connectionStatus = "connecting"
    /\ resetTimers = 0

\* C5: a RESET_FORM received by a follower leaves its replica, its reset
\* callbacks and its connection as they are, so a second receipt leaves the
\* follower as the first did.
C5_ResetFormIdempotent ==
    [][\A c \in ConnIds :
          (/\ toFollower[c] # <<>>
           /\ Head(toFollower[c]).type = "RESET_FORM"
           /\ followerOnData(c))
          => UNCHANGED <<fState, resetListeners, fConn, conn>>]_vars

\* A follower with a reset callback has received RESET_FORM twice.
C5_Witness ==
    \E f \in Followers : resetListeners[f] = 1 /\ resetCount[f] = 2

\* C6: each SUBMIT_ANSWER the host processes adds exactly one entry, under
\* a new id, with the submitted name and text and a null score, and leaves
\* the existing entries as they are.
C6_SubmissionAddsOneEntry ==
    [][\A n \in Names, t \in Texts, r \in RandomSuffixes :
          (isHost /\ messageArrives(SubmitAnswer(n, t), r)) =>
              /\ NewId(n, r) \notin DOMAIN state.students
              /\ DOMAIN state'.students = DOMAIN state.students \cup {NewId(n, r)}
              /\ \A id \in DOMAIN state.students :
                    state'.students[id] = state.students[id]
              /\ state'.students[NewId(n, r)].studentName = n
              /\ state'.students[NewId(n, r)].text = t
              /\ state'.students[NewId(n, r)].score = Null]_vars

\* C7: a SUBMIT_ANSWER arriving while isAcceptingAnswers is false is
\* recorded with its name and text and a null score.
C7_ClosedRoundStillRecords ==
    [][\A n \in Names, t \in Texts, r \in RandomSuffixes :
          (/\ isHost
           /\ ~state.isAcceptingAnswers
           /\ messageArrives(SubmitAnswer(n, t), r)) =>
              /\ NewId(n, r) \in DOMAIN state'.students
              /\ state'.students[NewId(n, r)].studentName = n
              /\ state'.students[NewId(n, r)].text = t
              /\ state'.students[NewId(n, r)].score = Null
              /\ ~state'.isAcceptingAnswers]_vars

\* An answer recorded by an open host that never opened the round: the
\* only persist() calls are startHosting's and the submission's.
C7_Witness ==
    /\ peer.open
    /\ persists = 2
    /\ ~state.isAcceptingAnswers
    /\ \E id \in DOMAIN state.students : state.students[id].text = "my answer"

\* C8: no entry of the host's students mapping has an empty text.
C8_NoEmptyText ==
    \A id \in DOMAIN state.students : state.students[id].text # ""

\* C9: the host's maxScore is at least 1.
C9_MaxScoreAtLeastOne == state.maxScore >= 1

\* C10: every recorded Response's score is null or an integer from 0 to the
\* document's maxScore.
C10_ScoreWithinMaxScore ==
    \A id \in DOMAIN state.students :
        state.students[id].id = id =>
            \/ state.students[id].score = Null
            \/ /\ state.students[id].score >= 0
               /\ state.students[id].score <= state.maxScore

\* C11: whenever the host's projectorDisplay has type 'answer', its
\* contentId is a key of the students mapping.
C11_DisplayedAnswerExists ==
    state.projectorDisplay.type = "answer" =>
        state.projectorDisplay.contentId \in DOMAIN state.students

\* C12: updateStudentAiData for an id of the mapping changes that Response's
\* aiSuggestedScore and aiFeedback and nothing else: its score and other
\* fields, the other Responses and the top-level fields stay as they are.
C12_AiDataIsAdvisory ==
    [][\A id \in DOMAIN state.students, sc \in AiScoreArgs, fb \in AiFeedbackArgs :
          updateStudentAiData(id, sc, fb) =>
              /\ DOMAIN state'.students = DOMAIN state.students
              /\ \A other \in DOMAIN state.students \ {id} :
                    state'.students[other] = state.students[other]
              /\ \A k \in ResponseFields \ {"aiSuggestedScore", "aiFeedback"} :
                    state'.students[id][k] = state.students[id][k]
              /\ state'.students[id].aiSuggestedScore = sc
              /\ state'.students[id].aiFeedback = fb
              /\ \A k \in DOMAIN state \ {"students"} : state'[k] = state[k]]_vars

\* A graded answer carries a suggestion that differs from its score.
C12_Witness ==
    \E id \in DOMAIN state.students :
        /\ state.students[id].text = "my answer"
        /\ state.students[id].score = 2
        /\ state.students[id].aiSuggestedScore = 1
        /\ state.students[id].aiFeedback = "Good paraphrase."

\* C13: on an instance that is not the host, no operation called on the
\* instance changes its document or writes the local mirror.
C13_NonHostIsReadOnly ==
    [][(~isHost /\ ~isHost') => UNCHANGED <<state, storage>>]_vars

\* C14: a connection that opens at the host has its snapshot timer armed by
\* the opening itself; the timer fires without any host mutation or
\* JOIN_REQUEST, and when it fires on a connection that is still open it
\* sends that connection a SYNC_STATE with the host's document.
C14_SnapshotOnOpen ==
    /\ [][\A c \in ConnIds :
            /\ hostOnOpen(c) => c \in snapTimers'
            /\ (snapshotTimer(c) /\ conn[c].link = "open") =>
                  toFollower'[c] = Append(toFollower[c], SyncState(state))]_vars
    /\ \A c \in ConnIds : (c \in snapTimers) ~> (c \notin snapTimers)

\* A follower holds the host's document although the host's only save is
\* the one of startHosting, made before any connection could open, and the
\* JOIN_REQUEST of the connection has not been handled.
C14_Witness ==
    \E c \in Registered :
        /\ conn[c].link = "open"
        /\ c \notin snapTimers
        /\ toHost[c] = <<JoinRequest(NameOf(conn[c].owner))>>
        /\ persists = 1
        /\ Truthy(state.roomCode)
        /\ fState[conn[c].owner] = state

\* C15: a follower that receives SYNC_STATE holds exactly the received
\* document afterwards, whatever its replica was: the replica serializes
\* back to the payload, so nothing of the previous replica survives.
C15_SnapshotReplacesReplica ==
    [][\A c \in ConnIds :
          (/\ toFollower[c] # <<>>
           /\ Head(toFollower[c]).type = "SYNC_STATE"
           /\ followerOnData(c))
          => ToJson(fState'[conn[c].owner]) = Head(toFollower[c]).payload]_vars

\* A connected follower has applied the snapshot of a reset round, the
\* host's third save, and holds that document with nothing left in flight.
C15_Witness ==
    \E c \in Registered :
        /\ conn[c].link = "open"
        /\ conn[c].fOpen
        /\ toFollower[c] = <<>>
        /\ persists = 3
        /\ resetTimers = 2
        /\ state.students = EmptyMap
        /\ fState[conn[c].owner] = state

C17_ClassNotFound ==
    [][\A f \in Followers, code \in TypedCodes :
          (joinGame(f, code) /\ ~Reachable(code)) =>
              /\ joinError'[f] = ClassNotFound
              /\ fState' = fState
              /\ fConn' = fConn
              /\ \A c \in ConnIds :
                    (conn'[c].link = "unused") <=> (conn[c].link = "unused")]_vars

\* A follower that had joined and received the host's document tried again
\* after the class was gone: rejected, replica kept, no new connection.
C17_Witness ==
    \E f \in Followers :
        /\ joinError[f] = ClassNotFound
        /\ fConn[f] # NoConn
        /\ conn[fConn[f]].link = "closed"
        /\ fState[f].roomCode = "AB12"
        /\ ~Reachable("ab12")
        /\ \A c \in ConnIds \ {fConn[f]} : conn[c].link = "unused"

\* C18: when the host's peer reports 'unavailable-id', connectionStatus
\* becomes 'connected' (not 'error'), the promise of startHosting is resolved
\* with the room code, and the document with its room code is unchanged.
C18_UnavailableIdRecovers ==
    [][peerOnError("unavailable-id") =>
          /\ connectionStatus' = "connected"
          /\ peer'.resolved = state.roomCode
          /\ state' = state]_vars

\* A host whose identity was taken: never opened, yet connected and resolved
\* with its room code.
C18_Witness ==
    /\ peer.fault = "unavailable-id"
    /\ ~peer.open
    /\ connectionStatus = "connected"
    /\ Truthy(state.roomCode)
    /\ peer.resolved = state.roomCode

\* C19: every error of the host's peer other than 'unavailable-id' sets
\* connectionStatus to 'error'.
C19_OtherFaultsSetError ==
    [][\A t \in HostErrorTypes \ {"unavailable-id"} :
          peerOnError(t) => connectionStatus' = "error"]_vars

\* Position of x in a sequence without repetitions.
Pos(seq, x) == CHOOSE i \in 1..Len(seq) : seq[i] = x

\* C20: when a connection closes at the host, exactly that connection
\* leaves the registry, the others stay in their order with what is in
\* flight to them, and every later save of the host is sent to each
\* registered open connection.
C20_CloseRemovesOnlyThatConnection ==
    /\ [][\A c \in ConnIds :
            hostOnClose(c) =>
                /\ Range(connections') = Range(connections) \ {c}
                /\ Len(connections') = Len(connections) - 1
                /\ \A i, j \in 1..Len(connections') :
                      i < j => Pos(connections, connections'[i])
                                 < Pos(connections, connections'[j])
                /\ toFollower' = toFollower]_vars
    /\ [][(persists' # persists /\ isHost') =>
            \A c \in Range(connections') :
                conn'[c].link = "open" =>
                    /\ Len(toFollower'[c]) > Len(toFollower[c])
                    /\ \E i \in 1..Len(toFollower'[c]) :
                          toFollower'[c][i] = SyncState(state')]_vars

\* The middle one of three registered connections has closed and left the
\* registry; the two others, whose first snapshots are still to come, have
\* been sent the host's latest save.
C20_Witness ==
    /\ connections = <<1, 3>>
    /\ conn[2].link = "closed"
    /\ {1, 3} \subseteq snapTimers
    /\ \A c \in {1, 3} :
          /\ conn[c].link = "open"
          /\ toFollower[c] = <<SyncState(state)>>

\* C21: a follower has at most one upstream connection delivering messages
\* into its replica at any time: of the connections a follower owns, at most
\* one is open at both ends.
C21_SingleUpstream ==
    \A f \in Followers :
        Cardinality({c \in ConnIds : /\ conn[c].owner = f
                                     /\ conn[c].link = "open"
                                     /\ conn[c].fOpen}) <= 1

\* C23: once a room code has been assigned, no step other than startNewClass
\* changes it: startHosting, a peer fault and its recovery, resetRound,
\* resetGame and every other mutator leave roomCode as it was.
C23_RoomCodeKept ==
    [][(Truthy(state.roomCode) /\ ~\E generated \in RandomCodes :
                                      startNewClass(generated))
          => state'.roomCode = state.roomCode]_vars

\* startHosting called a second time while the first call's peer was still
\* opening: the call found the room code assigned, kept it and reused the
\* peer, which is the only way to be connected with a peer that has neither
\* opened nor failed.
C23_Witness ==
    /\ persists = 2
    /\ state = [initialState EXCEPT !.roomCode = "AB12"]
    /\ connectionStatus = "connected"
    /\ peer = NewPeer("AB12")

\* C24: after every completed state mutation the local mirror holds the
\* serialization of exactly the current in-memory document, whatever the
\* connection status and however many connections are registered.
C24_MirrorIsCurrent ==
    persists > 0 => storage = <<ToJson(state)>>

\* A mutation completed while two follower connections were registered, and
\* the mirror holds the document it produced; the last snapshot sent to each
\* of them is that document.
C24_Witness ==
    /\ persists > 1
    /\ Len(connections) = 2
    /\ storage = <<ToJson(state)>>
    /\ \A c \in Range(connections) :
          /\ toFollower[c] # <<>>
          /\ toFollower[c][Len(toFollower[c])] = SyncState(state)

\* C22: the log never holds more than 200 entries: after any sequence of
\* logged events its length is the smaller of the number of events and 200,
\* it is ordered newest first, and an event logged into a full buffer drops
\* the oldest entry and no other.
C22_LogIsCapped ==
    /\ [](/\ Len(logs) = (IF logs[1] < LogLimit THEN logs[1] ELSE LogLimit)
          /\ \A i \in 1..Len(logs) : logs[i] = logs[1] - i + 1)
    /\ [][(addLog /\ Len(logs) = LogLimit)
            => logs' = <<logs[1] + 1>> \o SubSeq(logs, 1, LogLimit - 1)]_vars

\* Two events were logged into the full buffer: it holds the 200 newest
\* events, the 202nd first, and the first two are gone.
C22_Witness ==
    /\ Len(logs) = LogLimit
    /\ logs[1] = LogLimit + 2
    /\ logs[LogLimit] = 3

\* C25: reload round trip: the service constructed by a reload starts with a
\* document equal to the host's last document before the reload, and with
\* the empty defaults when nothing was ever stored; a startHosting that
\* follows keeps the room code of that document and opens the peer of that
\* room.
C25_ReloadRoundTrip ==
    /\ [][reload => /\ state' = state
                    /\ storage = <<>> => state' = initialState]_vars
    /\ [][\A generated \in RandomCodes :
            (startHosting(generated) /\ ~peer.exists /\ Truthy(state.roomCode))
                => /\ state'.roomCode = state.roomCode
                   /\ peer' = NewPeer(state.roomCode)]_vars

\* The page was reloaded after the room was opened and a prompt set: the
\* new service is not hosting yet, and its document has the room code and
\* the prompt.
C25_Witness ==
    /\ ~isHost
    /\ ~peer.exists
    /\ state.roomCode = "AB12"
    /\ state.prompt = "Explain X"
    /\ logs = <<1>>

\* C26: relay fan-out: an envelope {roomCode, message} received from a socket
\* is delivered to every connected socket that is in that room except the
\* sender, and to no other socket.  A socket is in the rooms it joined with
\* join_room and in the room named by its own id.
C26_RelayFanOut ==
    [][\A s \in Sockets, roomCode \in RoomNames, msg \in RelayMessages :
          message(s, roomCode, msg) =>
              \A t \in Sockets :
                  relay'.inbox[t] =
                      IF t # s /\ t \in relay.connected /\ roomCode \in relay.rooms[t]
                      THEN Append(relay.inbox[t], msg)
                      ELSE relay.inbox[t]]_vars

\* Two sockets are in room AB12 and a third is in room CD34: one message
\* has reached the second member of AB12, and neither the first member nor
\* the socket of the other room has anything.
C26_Witness ==
    /\ relay.connected = Sockets
    /\ relay.rooms = [s \in Sockets |-> {s, IF s = "s3" THEN "CD34" ELSE "AB12"}]
    /\ relay.inbox = [s \in Sockets |-> IF s = "s2" THEN <<"m1">> ELSE <<>>]

\* C27: subscribe(callback) invokes the callback at once with the current
\* document, every save invokes each subscribed callback with the new
\* document, a callback is invoked only while it is subscribed, calling the
\* unsubscribe function of one callback leaves the subscriptions of the
\* other callbacks as they were, and so every subscribed callback has been
\* given the current document.
C27_SubscribeNotifies ==
    /\ [][\A l \in Callbacks :
            subscribe(l) =>
                /\ observers'.calls[l] # <<>>
                /\ observers'.calls[l][1].doc = state
                /\ observers'.calls[l][1].at = persists]_vars
    /\ [][(persists' # persists) =>
            \A l \in Range(observers.listeners) :
                /\ observers'.calls[l] # <<>>
                /\ observers'.calls[l][1].doc = state'
                /\ observers'.calls[l][1].at = persists']_vars
    /\ [][\A l \in Callbacks :
            observers'.calls[l] # observers.calls[l]
                => l \in Range(observers'.listeners)]_vars
    /\ [][\A l \in Callbacks :
            unsubscribe(l) =>
                /\ l \notin Range(observers'.listeners)
                /\ observers'.listeners
                     = SelectSeq(observers.listeners, LAMBDA x : x # l)]_vars
    /\ [](\A l \in Range(observers.listeners) :
            /\ observers.calls[l] # <<>>
            /\ observers.calls[l][1].doc = state)

\* Two callbacks were subscribed before the first save and l1 unsubscribed
\* after it: the second save reached l2 alone, and l1 still has the document
\* of the first.
C27_Witness ==
    /\ persists = 2
    /\ observers.listeners = <<"l2">>
    /\ observers.calls["l1"] # <<>>
    /\ observers.calls["l1"][1].at = 1
    /\ observers.calls["l2"] # <<>>
    /\ observers.calls["l2"][1].at = 2
    /\ observers.calls["l2"][1].doc = state
    /\ observers.calls["l1"][1].doc # state

\* C28: a message arriving at the host that is not a well-formed SUBMIT_ANSWER
\* (a JOIN_REQUEST, a message of unknown type, a SUBMIT_ANSWER without a
\* payload or without a name) is dropped: the document, the registry and
\* connectionStatus are as before, and no exception has escaped the receive
\* callback.
C28_MalformedIsDropped ==
    [][\A msg \in MalformedMessages, r \in RandomSuffixes :
          messageArrives(msg, r) =>
              /\ UNCHANGED <<state, connections, connectionStatus>>
              /\ ~uncaught']_vars

\* C29: every save of the host makes its steps in this order: the new
\* document replaces the previous one, it is written to the mirror, a
\* SYNC_STATE carrying that complete document is sent to every open
\* connection of the registry, and then the observers are notified: each
\* subscribed callback is given the new document and finds it mirrored and
\* sent already.
C29_PersistOrder ==
    [][(persists' # persists) =>
          /\ storage' = <<ToJson(state')>>
          /\ isHost' =>
                \A c \in Range(connections') :
                    conn'[c].link = "open" =>
                        \E i \in (Len(toFollower[c]) + 1)..Len(toFollower'[c]) :
                            toFollower'[c][i] = SyncState(state')
          /\ \A l \in Range(observers.listeners) :
                /\ observers'.calls[l] # <<>>
                /\ observers'.calls[l][1].doc = state'
                /\ observers'.calls[l][1].at = persists'
                /\ observers'.calls[l][1].mirrored
                /\ observers'.calls[l][1].broadcast]_vars

\* The host saved a second time with a callback subscribed and a connection
\* registered and open: the snapshot of the new document is the last message
\* sent on the connection, and the callback was given that document after
\* the mirror held it.
C29_Witness ==
    /\ isHost
    /\ persists = 2
    /\ state.prompt = "Explain X"
    /\ observers.listeners = <<"l1">>
    /\ observers.calls["l1"] = <<[doc |-> state, mirrored |-> TRUE,
                                 broadcast |-> TRUE, at |-> 2]>>
    /\ \E c \in Range(connections) :
          /\ conn[c].link = "open"
          /\ toFollower[c] # <<>>
          /\ toFollower[c][Len(toFollower[c])] = SyncState(state)

\* C30: resetRound on the host sends every open registered connection the
\* SYNC_STATE of the document with the cleared mapping followed by a
\* RESET_FORM, and arms two timers; each timer, when it fires, sends a
\* RESET_FORM to every open registered connection; the timers are not
\* cancelled, and both fire.
C30_ResetFormRepeated ==
    /\ [][(resetRound /\ isHost) =>
            /\ state'.students = EmptyMap
            /\ resetTimers' = 2
            /\ \A c \in ConnIds :
                  toFollower'[c] =
                      IF c \in Registered /\ conn[c].link = "open"
                      THEN toFollower[c] \o <<SyncState(state'), ResetForm>>
                      ELSE toFollower[c]]_vars
    /\ [][resetTimer =>
            /\ resetTimers' = resetTimers - 1
            /\ \A c \in ConnIds :
                  toFollower'[c] =
                      IF c \in Registered /\ conn[c].link = "open"
                      THEN Append(toFollower[c], ResetForm)
                      ELSE toFollower[c]]_vars
    /\ [][resetTimers' # resetTimers => (resetRound \/ resetTimer)]_vars
    /\ (resetTimers = 2) ~> (resetTimers = 1)
    /\ (resetTimers = 1) ~> (resetTimers = 0)

\* A follower that stayed connected through a round reset: it has the
\* cleared document and has run its reset callback for the first
\* RESET_FORM, and the two later copies are in flight to it.
C30_Witness ==
    /\ isHost
    /\ resetTimers = 0
    /\ \E c \in Range(connections) :
          /\ conn[c].link = "open"
          /\ conn[c].fOpen
          /\ toFollower[c] = <<ResetForm, ResetForm>>
          /\ resetCount[conn[c].owner] = 1
          /\ fState[conn[c].owner] = state
          /\ state.students = EmptyMap

\* C34: toggleAccepting(b) sets isAcceptingAnswers to b and leaves prompt,
\* maxScore, roomCode, the students mapping and projectorDisplay as they
\* were.
C34_ToggleAcceptingOnly ==
    [][\A b \in BOOLEAN :
          toggleAccepting(b) => state' = [state EXCEPT !.isAcceptingAnswers = b]]_vars

\* The round that setPrompt opened was closed while an answer was on the
\* projector: the answer, the view showing it, the prompt and the maximum
\* score are all still there.
C34_Witness ==
    /\ ~state.isAcceptingAnswers
    /\ state.prompt = "Explain X"
    /\ state.maxScore = 3
    /\ state.projectorDisplay.type = "answer"
    /\ state.projectorDisplay.contentId \in DOMAIN state.students

\* C40: room isolation at the relay: a message is delivered to the members
\* of a room only when its sender has joined that room.
C40_RoomIsolation ==
    [][\A s \in Sockets, roomCode \in RandomCodes, msg \in RelayMessages :
          (/\ message(s, roomCode, msg)
           /\ \E t \in Sockets : relay'.inbox[t] # relay.inbox[t])
              => roomCode \in relay.rooms[s]]_vars

\* C32: after startNewClass the registry is empty and the previous peer is
\* destroyed: every connection that was open is closed with nothing in
\* flight on it, and a closed connection is never registered again, never
\* opens again and is never sent anything.
C32_NewClassDropsConnections ==
    /\ [][\A generated \in RandomCodes :
            startNewClass(generated) =>
                /\ connections' = <<>>
                /\ peer' = NewPeer(generated)
                /\ \A c \in ConnIds :
                      conn[c].link # "unused" =>
                          /\ conn'[c].link = "closed"
                          /\ toFollower'[c] = <<>>]_vars
    /\ [][\A c \in ConnIds :
            conn[c].link = "closed" =>
                /\ conn'[c].link = "closed"
                /\ toFollower'[c] = <<>>
                /\ c \in Range(connections') => c \in Range(connections)]_vars

\* A follower had joined room AB12 and the host then started class CD34:
\* the follower's connection is closed and out of the registry, and the
\* host has saved as the host of the new room.
C32_Witness ==
    /\ state.roomCode = "CD34"
    /\ peer.exists
    /\ peer.code = "CD34"
    /\ connections = <<>>
    /\ \E c \in ConnIds :
          /\ conn[c].link = "closed"
          /\ conn[c].target = "AB12"
          /\ conn[c].fOpen
          /\ fConn[conn[c].owner] = c
          /\ toFollower[c] = <<>>

\* C38: the delayed RESET_FORM resends of a resetRound reach only connections
\* that were in the registry when resetRound was called.  Such a connection
\* was sent the snapshot of the cleared document before any RESET_FORM, and a
\* connection delivers in order, so a follower that is about to receive a
\* RESET_FORM has applied a snapshot before.
C38_ResendsOnlyToResetRegistry ==
    \A c \in ConnIds :
        (/\ conn[c].link = "open"
         /\ toFollower[c] # <<>>
         /\ Head(toFollower[c]) = ResetForm)
            => fState[conn[c].owner] # initialState

\* C37: once a joinGame attempt has been rejected by its timeout, that
\* attempt's connection is never the follower's upstream link, and it
\* delivers nothing into the follower's replica.
C37_RejectedAttemptIsDead ==
    /\ [](\A c \in ConnIds :
            conn[c].promise = ConnectionTimedOut => fConn[conn[c].owner] # c)
    /\ [][\A c \in ConnIds :
            (conn[c].promise = ConnectionTimedOut /\ followerOnData(c))
                => fState' = fState]_vars

\* C36: a follower's replica never regresses.  On every connection the
\* queue towards the follower only grows at its end, every SYNC_STATE added
\* to it (by persist's broadcast or by the delayed initial snapshot) carries
\* the document the host has at that moment, and the follower applies the
\* message at the front: what it applies is in the order the host produced
\* it, also when the host mutates between the connection opening and the
\* snapshot being sent.
C36_ReplicaInOrder ==
    [][\A c \in ConnIds :
          /\ Len(toFollower'[c]) > Len(toFollower[c]) =>
                /\ SubSeq(toFollower'[c], 1, Len(toFollower[c])) = toFollower[c]
                /\ \A i \in (Len(toFollower[c]) + 1)..Len(toFollower'[c]) :
                      toFollower'[c][i].type = "SYNC_STATE"
                          => toFollower'[c][i] = SyncState(state')
          /\ Len(toFollower'[c]) <= Len(toFollower[c]) =>
                \/ toFollower'[c] = toFollower[c]
                \/ toFollower'[c] = <<>>
                \/ followerOnData(c) /\ toFollower'[c] = Tail(toFollower[c])
          /\ (followerOnData(c) /\ Head(toFollower[c]).type = "SYNC_STATE") =>
                fState'[conn[c].owner] = FromJson(Head(toFollower[c]).payload)]_vars

\* The host set the prompt after the connection opened and before its
\* snapshot was sent: the broadcast and the snapshot are both in flight, and
\* both carry the document with the prompt.
C36_Witness ==
    /\ persists = 2
    /\ state.prompt = "Explain X"
    /\ \E c \in ConnIds :
          /\ c \notin snapTimers
          /\ toFollower[c] = <<SyncState(state), SyncState(state)>>

\* C31: whenever the signalling link of the host's peer is lost, reconnect
\* is invoked on the peer: the 'disconnected' handler calls it in the same
\* step, so the peer is never left disconnected for a heartbeat to find, and
\* reconnect is called for no other reason.  A heartbeat tick while the link
\* is healthy or while there is no peer changes nothing.
C31_LossReconnects ==
    /\ [][signalingLost => /\ peer'.reconnects = peer.reconnects + 1
                           /\ ~peer'.disconnected]_vars
    /\ [](~peer.disconnected)
    /\ [][(peer'.reconnects > peer.reconnects) => signalingLost]_vars
    /\ [][(heartbeat /\ ~(peer.exists /\ peer.disconnected)) => UNCHANGED vars]_vars

\* The link was lost once, reconnect was called once, and the link is open
\* again with the host connected.
C31_Witness ==
    /\ peer.exists /\ peer.open
    /\ peer.reconnects = 1
    /\ connectionStatus = "connected"
    /\ connections # <<>>

C33_MirrorIsAppliedNotWritten ==
    /\ [][storageEvent(storage') =>
            /\ isHost => state' = state
            /\ (~isHost /\ storage' # <<>>) => state' = FromJson(storage'[1])]_vars
    /\ [][(~isHost /\ ~isHost' /\ ~storageEvent(storage')) => storage' = storage]_vars

\* C35: connectionStatus follows the link on both roles.  On the host it is
\* 'connecting' while the peer of a start has neither opened nor failed and
\* 'connected' while the peer is open and has not failed; on a follower it is
\* 'connecting' while the promise of its join is pending and 'connected'
\* once the join has succeeded.
C35_StatusFollowsLink ==
    /\ (peer.exists /\ ~peer.open /\ peer.fault = NoError)
          => connectionStatus = "connecting"
    /\ (peer.exists /\ peer.open /\ peer.fault = NoError)
          => connectionStatus = "connected"
    /\ \A c \in ConnIds :
          /\ conn[c].promise = "pending" => fStatus[conn[c].owner] = "connecting"
          /\ (conn[c].promise = "resolved" /\ conn[c].link = "open"
                  /\ fConn[conn[c].owner] = c)
                => fStatus[conn[c].owner] = "connected"

====
